---- MODULE Spec2Model ----
(***************************************************************************)
(* A model of src/src/util/generate-password.worker.js: the random byte    *)
(* pool (randomPool, regenerateRandomPool, getRandomByte), the rejection   *)
(* sampler (getRandomByteInRange), the validator (passwordIsValid) and the *)
(* generation loop (generateRandomString, generatePassword, the worker's   *)
(* message listener).                                                      *)
(*                                                                         *)
(* The worker is single threaded.  Every `await` suspends the running      *)
(* async function; its continuation is a job of the microtask queue, which *)
(* is served first-in first-out and drained before the next message event  *)
(* is dispatched.  A generation request is a "caller": the chain of async  *)
(* calls one REQUEST_GENERATE_PASSWORD message starts.  pc[p] names the    *)
(* source line of the await caller p is suspended at.                      *)
(*                                                                         *)
(* Characters are their character codes.  Proportions (real numbers in     *)
(* [0,1] in the source) are integers in hundredths; comparisons of         *)
(* quotients are cross-multiplied.                                         *)
(***************************************************************************)
EXTENDS Integers, Sequences, FiniteSets, TLC

\* ------------------------------------------------------------------ bounds
\* Number of REQUEST_GENERATE_PASSWORD messages the main thread sends.
NumCallers == 2
\* Length of randomPool.buffer (65536 in the source, line 14).
PoolCapacity == 1
\* Largest value of the clock (Date.now()), in milliseconds.
MaxNow == 1000
\* Largest lower bound getRandomByteInRange is called with in SamplerSpec.
SamplerMaxMin == 0
\* Longest password passwordIsValid is called with in ValidatorSpec.
MaxValidatedLength == 10

\* --------------------------------------------------------- program constants
\* 0xff + 1, the number of byte values (line 108).
ByteRange == 256
\* Milliseconds per second (line 212).
MsPerSecond == 1000

Callers == 1..NumCallers
\* The byte values the entropy source fills buffers with.
ByteChoices == {0, 26, 255}
\* The amounts by which the clock advances.
TickStep == MsPerSecond
\* The values of options.passwordLength a request carries.
PasswordLengths == {1, 2}
\* The timeouts (seconds) a request carries.
TimeoutChoices == {0, 1}

\* ------------------------------------------------------- character classes
UppercaseChars == [i \in 1..26 |-> 64 + i]
LowercaseChars == [i \in 1..26 |-> 96 + i]
DigitChars == [i \in 1..10 |-> 47 + i]

\* util/classifyCharacter: one of uppercase, lowercase, digit, symbol, other.
classifyCharacter(c) ==
  IF c \in 65..90 THEN "uppercase"
  ELSE IF c \in 97..122 THEN "lowercase"
  ELSE IF c \in 48..57 THEN "digit"
  ELSE IF c \in (33..47) \cup (58..64) \cup (91..96) \cup (123..126) THEN "symbol"
  ELSE "other"

\* ---------------------------------------------------------------- sampler
\* getRandomByteInRange, line 104.
Bound(min, max) == max - min + 1

\* A sampler that rejects nothing: drawn mod bound.
RejectionLimitNone(min, max) == ByteRange - 1

\* The largest accepted byte, line 108: Math.floor((0xff + 1) / bound) * bound - 1.
RejectionLimit(min, max) ==
  (ByteRange \div Bound(min, max)) * Bound(min, max) - 1

\* The loop condition of line 108, negated: the drawn byte ends the loop.
Accepted(randomUint8, min, max) == ~(randomUint8 > RejectionLimit(min, max))

\* Line 109.
RangeValue(randomUint8, min, max) == (randomUint8 % Bound(min, max)) + min

\* -------------------------------------------------------------- validator
CountOf(password, class) ==
  Cardinality({i \in 1..Len(password) : classifyCharacter(password[i]) = class})

\* The comparison with > for >=.
ProportionAtLeastStrict(num, den, hundredths) ==
  IF den = 0 THEN num > 0 ELSE num * 100 > hundredths * den

\* num / den >= hundredths / 100 as JavaScript evaluates it: 0 / 0 is NaN and
\* every comparison with NaN is false.
ProportionAtLeast(num, den, hundredths) ==
  IF den = 0 THEN num > 0 ELSE num * 100 >= hundredths * den

\* The variance without its factor 2.
CaseVarianceAtMostHalved(lowercase, letters, hundredths) ==
  LET d == 2 * lowercase - letters
      a == IF d < 0 THEN -d ELSE d
  IN  a * 100 <= 2 * hundredths * letters

\* 2 * Math.abs(lowercase / letters - 0.5) <= hundredths / 100, letters > 0.
CaseVarianceAtMost(lowercase, letters, hundredths) ==
  LET d == 2 * lowercase - letters
      a == IF d < 0 THEN -d ELSE d
  IN  a * 100 <= hundredths * letters

\* A validator that checks the digits whether or not they are enabled.
passwordIsValidDigitsAlwaysChecked(password, options) ==
  LET digits == CountOf(password, "digit")
      symbols == CountOf(password, "symbol")
      lowercase == CountOf(password, "lowercase")
      uppercase == CountOf(password, "uppercase")
      letters == lowercase + uppercase
  IN  /\ ProportionAtLeast(digits, Len(password), options.minDigitProportion)
      /\ (~(options.useSymbols /\ Len(options.symbols) > 0)
          \/ ProportionAtLeast(symbols, Len(password), options.minSymbolProportion))
      /\ (~(letters > 0 /\ options.useUppercase /\ options.useLowercase)
          \/ CaseVarianceAtMost(lowercase, letters, options.maxCaseVariance))

\* passwordIsValid, lines 122-153.
passwordIsValid(password, options) ==
  LET digits == CountOf(password, "digit")
      symbols == CountOf(password, "symbol")
      lowercase == CountOf(password, "lowercase")
      uppercase == CountOf(password, "uppercase")
      letters == lowercase + uppercase
  IN  /\ (~options.useDigits
          \/ ProportionAtLeast(digits, Len(password), options.minDigitProportion))
      /\ (~(options.useSymbols /\ Len(options.symbols) > 0)
          \/ ProportionAtLeast(symbols, Len(password), options.minSymbolProportion))
      /\ (~(letters > 0 /\ options.useUppercase /\ options.useLowercase)
          \/ CaseVarianceAtMost(lowercase, letters, options.maxCaseVariance))

\* -------------------------------------------------------------- generator
\* The alphabet with the lowercase letters whether or not they are enabled.
PasswordCharsLowercaseAlways(options) ==
  (IF options.useUppercase THEN UppercaseChars ELSE <<>>)
  \o LowercaseChars
  \o (IF options.useDigits THEN DigitChars ELSE <<>>)
  \o (IF options.useSymbols THEN options.symbols ELSE <<>>)

\* generatePassword, lines 189-201: the working alphabet.
PasswordChars(options) ==
  (IF options.useUppercase THEN UppercaseChars ELSE <<>>)
  \o (IF options.useLowercase THEN LowercaseChars ELSE <<>>)
  \o (IF options.useDigits THEN DigitChars ELSE <<>>)
  \o (IF options.useSymbols THEN options.symbols ELSE <<>>)

\* The timeout check with > for >=.
TimedOutStrict(clock, start, timeoutSeconds) ==
  clock - start > timeoutSeconds * MsPerSecond

\* Line 212: Date.now() - startTime >= timeout * 1000.
TimedOut(clock, start, timeoutSeconds) ==
  clock - start >= timeoutSeconds * MsPerSecond

\* ------------------------------------------------------------------ state
VARIABLES
  buffer,               \* randomPool.buffer: its bytes; <<>> once transferred away
  numRead,              \* randomPool.numRead
  regenerationPromise,  \* randomPool.regenerationPromise: 0 is null, else a promise
  listeners,            \* the promises whose onMessageListener is registered
  toMain,               \* REQUEST_GET_RANDOM_BYTES messages not yet answered: the
                        \* buffers they transfer to the main thread
  reactions,            \* the callers suspended at line 78, in the order they awaited
  awaiting,             \* awaiting[p]: the promise caller p awaits at line 78
  settled,              \* settled[p]: how the promise p awaited was settled
  runq,                 \* the microtask queue: callers whose continuation is queued
  pc,                   \* pc[p]: the await caller p is suspended at
  ret,                  \* ret[p]: the number the awaited call of p returned
  options,              \* options[p]: event.data.messageData.options
  timeout,              \* timeout[p]: event.data.messageData.timeout
  startTime,            \* startTime[p], line 186
  randomString,         \* randomString[p], line 166
  result,               \* result[p]: how generatePassword ended
  responses,            \* responses[p]: the number of RESPONSE_GENERATE_PASSWORD
                        \* messages posted for the request of p
  posted,               \* the RESPONSE_GENERATE_PASSWORD message posted last
  now,                  \* Date.now()
  delivered,            \* the promises settled by the response that brought the
                        \* current buffer, that response's code, and whether the
                        \* entropy source has ever filled the buffer it brought
  readFrom,             \* readFrom[p]: `delivered` and the index of the byte the
                        \* getRandomByte call of p returned
  attachedTo,           \* attachedTo[p]: the promise the current getRandomByte call
                        \* of p awaited first (0: it has not awaited)
  wokenWith,            \* wokenWith[p]: when attachedTo[p] was settled, the number
                        \* of callers it woke and the number of bytes delivered
  sample,               \* the getRandomByteInRange call of SamplerSpec
  validation,           \* the passwordIsValid call of ValidatorSpec
  appState              \* this.state of the App component: its options, and the
                        \* last call of onOptionsChange (its optionsDelta and the
                        \* options it found)

poolVars == <<buffer, numRead, regenerationPromise, listeners, toMain>>
schedVars == <<reactions, awaiting, settled, runq, pc, ret>>
callVars == <<options, timeout, startTime, randomString, result>>
envVars == <<responses, posted, now>>
ghostVars == <<delivered, readFrom, attachedTo, wokenWith>>
fnVars == <<sample, validation, appState>>
vars == <<poolVars, schedVars, callVars, envVars, ghostVars, fnVars>>

\* The options a request may carry: lowercase letters and digits with at
\* least half of the characters digits, or the symbols ! and @ alone with at
\* least half of the characters symbols.
OptionChoices ==
  { [passwordLength |-> n, useUppercase |-> FALSE, useLowercase |-> TRUE,
     useDigits |-> TRUE, useSymbols |-> FALSE, symbols |-> <<33, 64>>,
     minDigitProportion |-> 50, minSymbolProportion |-> 0, maxCaseVariance |-> 0] :
      n \in PasswordLengths }
  \cup
  { [passwordLength |-> n, useUppercase |-> FALSE, useLowercase |-> FALSE,
     useDigits |-> FALSE, useSymbols |-> TRUE, symbols |-> <<33, 64>>,
     minDigitProportion |-> 0, minSymbolProportion |-> 50, maxCaseVariance |-> 0] :
      n \in PasswordLengths }

NoOptions == CHOOSE o \in OptionChoices : TRUE
NoResult == [kind |-> "none", password |-> <<>>]
NoResponse == [responseCode |-> "none", password |-> <<>>]
NotDelivered == [promises |-> {}, responseCode |-> "none", filled |-> FALSE]
NotRead == [from |-> NotDelivered, index |-> 0]
NotWoken == [callers |-> 0, bytes |-> 0]

\* Promises are told apart by a number; a number no one holds any more is
\* used again.
PromiseIds == 1..(3 * NumCallers + 2)
NewPromise ==
  LET held == listeners \cup delivered.promises
              \cup {awaiting[p] : p \in Callers} \cup {attachedTo[p] : p \in Callers}
  IN  CHOOSE i \in PromiseIds \ held : \A j \in PromiseIds \ held : i <= j

\* randomPool, lines 12-21: a zeroed buffer, marked as read to its end.  No
\* request has arrived.
WorkerInit ==
  /\ buffer = [i \in 1..PoolCapacity |-> 0]
  /\ numRead = PoolCapacity
  /\ regenerationPromise = 0
  /\ listeners = {}
  /\ toMain = <<>>
  /\ reactions = <<>>
  /\ awaiting = [p \in Callers |-> 0]
  /\ settled = [p \in Callers |-> "none"]
  /\ runq = <<>>
  /\ pc = [p \in Callers |-> "idle"]
  /\ ret = [p \in Callers |-> 0]
  /\ options = [p \in Callers |-> NoOptions]
  /\ timeout = [p \in Callers |-> 0]
  /\ startTime = [p \in Callers |-> 0]
  /\ randomString = [p \in Callers |-> <<>>]
  /\ result = [p \in Callers |-> NoResult]
  /\ responses = [p \in Callers |-> 0]
  /\ posted = NoResponse
  /\ now = 0
  /\ delivered = NotDelivered
  /\ readFrom = [p \in Callers |-> NotRead]
  /\ attachedTo = [p \in Callers |-> 0]
  /\ wokenWith = [p \in Callers |-> NotWoken]

NoSample == [min |-> 0, max |-> 0, randomUint8 |-> 0, state |-> "none", value |-> 0]
NoValidation == [password |-> <<>>, options |-> NoOptions, valid |-> FALSE]

\* App.constructor, lines 33-45 of components/App/index.jsx: the symbols are
\* !@#$%&*_? and the proportions 0.01.
InitialOptions ==
  [passwordLength |-> 9, minDigitProportion |-> 1, minSymbolProportion |-> 1,
   maxCaseVariance |-> 1, useLowercase |-> TRUE, useUppercase |-> TRUE,
   useDigits |-> TRUE, useSymbols |-> TRUE,
   symbols |-> <<33, 64, 35, 36, 37, 38, 42, 95, 63>>]

\* An optionsDelta: the fields it has, and their values (val[f] for f in has).
NoDelta == [has |-> {}, val |-> InitialOptions]

AppConstructed ==
  appState = [options |-> InitialOptions, optionsDelta |-> NoDelta,
              prevOptions |-> InitialOptions]

Init ==
  WorkerInit /\ sample = NoSample /\ validation = NoValidation /\ AppConstructed

\* ------------------------------------------------------------------- pool
\* regenerateRandomPool without the check of line 30: every call posts a request.
regenerateRandomPoolUnguarded ==
  /\ regenerationPromise' = NewPromise
  /\ listeners' = listeners \cup {NewPromise}
  /\ toMain' = Append(toMain, buffer)
  /\ buffer' = <<>>

\* regenerateRandomPool, lines 28-66.  A new promise registers its listener
\* and posts REQUEST_GET_RANDOM_BYTES, transferring randomPool.buffer (whose
\* length is 0 from then on).  The value returned is regenerationPromise'.
regenerateRandomPool ==
  IF regenerationPromise = 0
  THEN /\ regenerationPromise' = NewPromise
       /\ listeners' = listeners \cup {NewPromise}
       /\ toMain' = Append(toMain, buffer)
       /\ buffer' = <<>>
  ELSE UNCHANGED <<regenerationPromise, listeners, toMain, buffer>>

\* getRandomByte, lines 77-79: the pool is exhausted and caller p suspends on
\* the regeneration promise.  q is the microtask queue without p.
AwaitRegeneration(p, q, first) ==
  /\ regenerateRandomPool
  /\ awaiting' = [awaiting EXCEPT ![p] = regenerationPromise']
  /\ attachedTo' = [attachedTo EXCEPT ![p] =
                      IF first THEN regenerationPromise' ELSE @]
  /\ reactions' = Append(reactions, p)
  /\ runq' = q
  /\ pc' = [pc EXCEPT ![p] = "L78"]
  /\ wokenWith' = [wokenWith EXCEPT ![p] = IF first THEN NotWoken ELSE @]
  /\ UNCHANGED <<numRead, ret, readFrom>>

\* What reading a typed array beyond its length gives (undefined in the
\* source; no byte value).
Undefined == -1

\* A read that leaves numRead where it is.
ReadByteWithoutAdvance(p, q, first) ==
  /\ ret' = [ret EXCEPT ![p] = IF numRead + 1 \in DOMAIN buffer
                                THEN buffer[numRead + 1] ELSE Undefined]
  /\ readFrom' = [readFrom EXCEPT ![p] = [from |-> delivered, index |-> numRead]]
  /\ attachedTo' = [attachedTo EXCEPT ![p] = IF first THEN 0 ELSE @]
  /\ wokenWith' = [wokenWith EXCEPT ![p] = IF first THEN NotWoken ELSE @]
  /\ runq' = Append(q, p)
  /\ pc' = [pc EXCEPT ![p] = "L107"]
  /\ awaiting' = [awaiting EXCEPT ![p] = 0]
  /\ UNCHANGED <<buffer, numRead, regenerationPromise, listeners, toMain, reactions>>

\* getRandomByte, lines 83-85: caller p takes the next byte, and the
\* continuation of line 107 is queued.
ReadByte(p, q, first) ==
  /\ ret' = [ret EXCEPT ![p] = IF numRead + 1 \in DOMAIN buffer
                                THEN buffer[numRead + 1] ELSE Undefined]
  /\ numRead' = numRead + 1
  /\ readFrom' = [readFrom EXCEPT ![p] = [from |-> delivered, index |-> numRead]]
  /\ attachedTo' = [attachedTo EXCEPT ![p] = IF first THEN 0 ELSE @]
  /\ wokenWith' = [wokenWith EXCEPT ![p] = IF first THEN NotWoken ELSE @]
  /\ runq' = Append(q, p)
  /\ pc' = [pc EXCEPT ![p] = "L107"]
  /\ awaiting' = [awaiting EXCEPT ![p] = 0]
  /\ UNCHANGED <<buffer, regenerationPromise, listeners, toMain, reactions>>

\* getRandomByte, lines 75-90, up to its first await or its return.
getRandomByte(p, q, first) ==
  IF numRead >= Len(buffer)
  THEN AwaitRegeneration(p, q, first)
  ELSE ReadByte(p, q, first)

\* generateRandomString, lines 166-168: a new string, and the first call of
\* getRandomByteInRange (passwordLength is positive).
generateRandomString(p, q) ==
  /\ randomString' = [randomString EXCEPT ![p] = <<>>]
  /\ getRandomByte(p, q, TRUE)

\* ------------------------------------------------------- generation request
\* A loop that returns its first candidate unvalidated.
CandidateOutcomeUnchecked(password, opts, clock, start, timeoutSeconds) ==
  IF TimedOut(clock, start, timeoutSeconds) THEN "timeout" ELSE "valid"

\* What the loop of generatePassword does with a completed candidate, lines
\* 211-216: "timeout" returns null, "valid" returns the password, "retry"
\* runs the loop body again.
CandidateOutcome(password, opts, clock, start, timeoutSeconds) ==
  IF TimedOut(clock, start, timeoutSeconds) THEN "timeout"
  ELSE IF ~passwordIsValid(password, opts) THEN "retry"
  ELSE "valid"

\* A listener that reports the timeout as an error.
ResponseForNullAsError(r) ==
  IF r.kind = "password"
  THEN [responseCode |-> "OK", password |-> r.password]
  ELSE [responseCode |-> "ERROR", password |-> <<>>]

\* The message listener, lines 230-251: the response for the way
\* generatePassword ended.
ResponseFor(r) ==
  IF r.kind = "throw"
  THEN [responseCode |-> "ERROR", password |-> <<>>]
  ELSE IF r.kind = "password"
  THEN [responseCode |-> "OK", password |-> r.password]
  ELSE [responseCode |-> "TIMEOUT", password |-> <<>>]

\* The index range generateRandomString samples, line 168.
MaxIndex(p) == Len(PasswordChars(options[p])) - 1

\* A REQUEST_GENERATE_PASSWORD message is dispatched (lines 220-229): caller p
\* runs generatePassword up to its first suspension.
ReceiveGenerateRequest(p, o, t) ==
  /\ runq = <<>>
  /\ pc[p] = "idle"
  /\ \A q \in 1..(p - 1) : pc[q] # "idle" /\ options[q] = o /\ timeout[q] = t
  /\ options' = [options EXCEPT ![p] = o]
  /\ timeout' = [timeout EXCEPT ![p] = t]
  /\ startTime' = [startTime EXCEPT ![p] = now]
  /\ generateRandomString(p, runq)
  /\ UNCHANGED <<settled, result, envVars, delivered, fnVars>>

\* A caller that reads after the refill without the check of line 82.
RecheckPoolNever(p, q) == ReadByte(p, q, FALSE)

\* getRandomByte, lines 82-89: resumed after the refill, caller p checks the
\* pool again; it reads, or (the pool is exhausted again) calls getRandomByte
\* once more.
RecheckPool(p, q) ==
  IF numRead < Len(buffer)
  THEN ReadByte(p, q, FALSE)
  ELSE getRandomByte(p, q, FALSE)

\* A caller that answers a rejected refill by calling getRandomByte again.
PropagateRejectionRetrying(p, q) ==
  /\ getRandomByte(p, q, FALSE)
  /\ UNCHANGED <<result, randomString>>

\* The await of line 78 throws: the error leaves getRandomByte,
\* getRandomByteInRange, generateRandomString and generatePassword (none of
\* them catches) for the catch of line 244.
PropagateRejection(p, q) ==
  /\ result' = [result EXCEPT ![p] = [kind |-> "throw", password |-> <<>>]]
  /\ pc' = [pc EXCEPT ![p] = "L226"]
  /\ runq' = Append(q, p)
  /\ awaiting' = [awaiting EXCEPT ![p] = 0]
  /\ attachedTo' = [attachedTo EXCEPT ![p] = 0]
  /\ wokenWith' = [wokenWith EXCEPT ![p] = NotWoken]
  /\ randomString' = [randomString EXCEPT ![p] = <<>>]
  /\ UNCHANGED <<poolVars, reactions, ret, readFrom>>

\* The continuation of line 78.  A rejected promise throws; otherwise line 82
\* checks the pool again.
ResumeAfterRegeneration(p) ==
  /\ runq # <<>> /\ Head(runq) = p
  /\ pc[p] = "L78"
  /\ settled' = [settled EXCEPT ![p] = "none"]
  /\ IF settled[p] = "rejected"
     THEN PropagateRejection(p, Tail(runq))
     ELSE /\ RecheckPool(p, Tail(runq))
          /\ UNCHANGED <<result, randomString>>
  /\ UNCHANGED <<options, timeout, startTime, envVars, delivered, fnVars>>

\* The continuation of line 107, getRandomByteInRange: a rejected byte draws
\* again, an accepted one is returned reduced to the range.
ContinueGetRandomByteInRange(p) ==
  /\ runq # <<>> /\ Head(runq) = p
  /\ pc[p] = "L107"
  /\ IF ~Accepted(ret[p], 0, MaxIndex(p))
     THEN getRandomByte(p, Tail(runq), TRUE)
     ELSE /\ ret' = [ret EXCEPT ![p] = RangeValue(ret[p], 0, MaxIndex(p))]
          /\ pc' = [pc EXCEPT ![p] = "L168"]
          /\ runq' = Append(Tail(runq), p)
          /\ readFrom' = [readFrom EXCEPT ![p] = NotRead]
          /\ attachedTo' = [attachedTo EXCEPT ![p] = 0]
          /\ wokenWith' = [wokenWith EXCEPT ![p] = NotWoken]
          /\ UNCHANGED <<poolVars, reactions, awaiting>>
  /\ UNCHANGED <<settled, callVars, envVars, delivered, fnVars>>

\* A loop that returns the string after its first character.
StringCompleteAfterOne(s, o) == ~(Len(s) < 1)

\* generateRandomString, line 167: the loop condition, negated.
StringComplete(s, o) == ~(Len(s) < o.passwordLength)

\* The continuation of line 168, generateRandomString: the sampled character
\* is appended; the loop samples again or returns the string.
ContinueGenerateRandomString(p) ==
  /\ runq # <<>> /\ Head(runq) = p
  /\ pc[p] = "L168"
  /\ randomString' = [randomString EXCEPT
                        ![p] = Append(@, PasswordChars(options[p])[ret[p] + 1])]
  /\ IF ~StringComplete(randomString'[p], options[p])
     THEN getRandomByte(p, Tail(runq), TRUE)
     ELSE /\ pc' = [pc EXCEPT ![p] = "L206"]
          /\ runq' = Append(Tail(runq), p)
          /\ ret' = [ret EXCEPT ![p] = 0]
          /\ UNCHANGED <<poolVars, reactions, awaiting, readFrom, attachedTo, wokenWith>>
  /\ UNCHANGED <<settled, options, timeout, startTime, result, envVars, delivered,
                 fnVars>>

\* The continuation of line 206, generatePassword: the timeout check, then
\* the validity check of the candidate.
ContinueGeneratePassword(p) ==
  /\ runq # <<>> /\ Head(runq) = p
  /\ pc[p] = "L206"
  /\ LET outcome == CandidateOutcome(randomString[p], options[p], now,
                                     startTime[p], timeout[p])
     IN  IF outcome = "retry"
         THEN /\ generateRandomString(p, Tail(runq))
              /\ UNCHANGED result
         ELSE /\ result' = [result EXCEPT ![p] =
                   IF outcome = "timeout"
                   THEN [kind |-> "null", password |-> <<>>]
                   ELSE [kind |-> "password", password |-> randomString[p]]]
              /\ pc' = [pc EXCEPT ![p] = "L226"]
              /\ runq' = Append(Tail(runq), p)
              /\ UNCHANGED <<poolVars, reactions, awaiting, ret, readFrom,
                             attachedTo, wokenWith, randomString>>
  /\ UNCHANGED <<settled, options, timeout, startTime, envVars, delivered, fnVars>>

\* The continuation of line 226, the message listener: the response is posted.
PostResponse(p) ==
  /\ runq # <<>> /\ Head(runq) = p
  /\ pc[p] = "L226"
  /\ responses' = [responses EXCEPT ![p] = @ + 1]
  /\ posted' = ResponseFor(result[p])
  /\ pc' = [pc EXCEPT ![p] = "done"]
  /\ runq' = Tail(runq)
  \* The locals of the finished call are gone.
  /\ startTime' = [startTime EXCEPT ![p] = 0]
  /\ randomString' = [randomString EXCEPT ![p] = <<>>]
  /\ result' = [result EXCEPT ![p] = NoResult]
  /\ UNCHANGED <<poolVars, reactions, awaiting, settled, ret, options, timeout, now,
                 ghostVars, fnVars>>

\* ------------------------------------------------------------ entropy source
\* The answers of the main thread to a request that transferred `sent`: OK
\* with the buffer filled, or ERROR with a message and either the buffer as it
\* was sent or no buffer (new Uint8Array(undefined) is empty).
AnswersTo(sent) ==
  { [responseCode |-> "OK", buffer |-> b] : b \in [1..Len(sent) -> ByteChoices] }
  \cup { [responseCode |-> "ERROR", buffer |-> sent],
         [responseCode |-> "ERROR", buffer |-> <<>>] }

\* The callers woken last-awaited first.
WokenLastFirst(waiting, ps) ==
  LET inOrder == SelectSeq(waiting, LAMBDA p : awaiting[p] \in ps)
  IN  [i \in 1..Len(inOrder) |-> inOrder[Len(inOrder) + 1 - i]]

\* The callers among `waiting` whose awaited promise is in `ps`, in order.
Woken(waiting, ps) == SelectSeq(waiting, LAMBDA p : awaiting[p] \in ps)

\* A listener that resolves whatever the response code.
SettlementAlwaysResolved(responseCode) == "resolved"

\* How onMessageListener settles its promise, lines 41-45.
Settlement(responseCode) == IF responseCode = "OK" THEN "resolved" ELSE "rejected"

\* onMessageListener without line 40: the promise stays in randomPool.
InstallBufferKeepingPromise(answer) ==
  /\ buffer' = answer.buffer
  /\ numRead' = 0
  /\ UNCHANGED regenerationPromise

\* onMessageListener, lines 38-40: the pool takes the buffer of the response.
InstallBuffer(answer) ==
  /\ buffer' = answer.buffer
  /\ numRead' = 0
  /\ regenerationPromise' = 0

\* A RESPONSE_GET_RANDOM_BYTES message is dispatched to every registered
\* onMessageListener, lines 35-47.
HandleRandomBytes(answer) ==
  /\ toMain' = Tail(toMain)
  /\ IF listeners = {}
     THEN UNCHANGED <<buffer, numRead, regenerationPromise, listeners, reactions,
                      settled, runq, delivered, wokenWith>>
     ELSE /\ listeners' = {}
          /\ delivered' = [promises |-> listeners, responseCode |-> answer.responseCode,
                           filled |-> \/ answer.responseCode = "OK"
                                      \/ answer.buffer # <<>> /\ delivered.filled]
          /\ InstallBuffer(answer)
          /\ settled' = [p \in Callers |->
                           IF pc[p] = "L78" /\ awaiting[p] \in listeners
                           THEN Settlement(answer.responseCode) ELSE settled[p]]
          /\ runq' = Woken(reactions, listeners)
          /\ wokenWith' = [p \in Callers |->
                             IF pc[p] = "L78" /\ awaiting[p] \in listeners
                                /\ awaiting[p] = attachedTo[p]
                             THEN [callers |-> Len(Woken(reactions, listeners)),
                                   bytes |-> Len(answer.buffer)]
                             ELSE wokenWith[p]]
          /\ reactions' = SelectSeq(reactions, LAMBDA p : awaiting[p] \notin listeners)
  /\ UNCHANGED <<awaiting, pc, ret, callVars, envVars, readFrom, attachedTo, fnVars>>

\* The main thread answers the oldest request; the message is dispatched once
\* the microtask queue is empty.
ReceiveRandomBytes ==
  /\ runq = <<>>
  /\ toMain # <<>>
  /\ \E answer \in AnswersTo(Head(toMain)) : HandleRandomBytes(answer)

\* Time passes.
Tick ==
  /\ now + TickStep <= MaxNow
  /\ now' = now + TickStep
  /\ UNCHANGED <<poolVars, schedVars, callVars, responses, posted, ghostVars, fnVars>>

Next ==
  \/ \E p \in Callers, o \in OptionChoices, t \in TimeoutChoices :
       ReceiveGenerateRequest(p, o, t)
  \/ \E p \in Callers : ResumeAfterRegeneration(p)
  \/ \E p \in Callers : ContinueGetRandomByteInRange(p)
  \/ \E p \in Callers : ContinueGenerateRandomString(p)
  \/ \E p \in Callers : ContinueGeneratePassword(p)
  \/ \E p \in Callers : PostResponse(p)
  \/ ReceiveRandomBytes
  \/ Tick

Spec == Init /\ [][Next]_vars

\* ------------------------------------------- an entropy source that delivers
\* The answers that fill the buffer: OK, with as many bytes as were sent.
FilledAnswersTo(sent) ==
  {answer \in AnswersTo(sent) : answer.responseCode = "OK" /\ answer.buffer # <<>>}

\* The main thread answers the oldest request with a filled buffer.
ReceiveFilledBuffer ==
  /\ runq = <<>>
  /\ toMain # <<>>
  /\ \E answer \in FilledAnswersTo(Head(toMain)) : HandleRandomBytes(answer)

\* The job of caller p at the head of the microtask queue runs.
RunMicrotask(p) ==
  \/ ResumeAfterRegeneration(p)
  \/ ContinueGetRandomByteInRange(p)
  \/ ContinueGenerateRandomString(p)
  \/ ContinueGeneratePassword(p)
  \/ PostResponse(p)

LiveNext ==
  \/ \E p \in Callers, o \in OptionChoices, t \in TimeoutChoices :
       ReceiveGenerateRequest(p, o, t)
  \/ \E p \in Callers : RunMicrotask(p)
  \/ ReceiveFilledBuffer
  \/ Tick

\* The worker under an entropy source that answers every request with a filled
\* buffer.  The event loop runs every queued job, and dispatches the response
\* once the microtask queue is empty; requests arrive and time passes as they
\* may.
LiveSpec ==
  /\ Init
  /\ [][LiveNext]_vars
  /\ \A p \in Callers : WF_vars(RunMicrotask(p))
  /\ WF_vars(ReceiveFilledBuffer)

\* ------------------------------------------------- getRandomByteInRange alone
\* One call getRandomByteInRange(min, max), 0 <= min <= max <= 255, with the
\* bytes getRandomByte returns drawn from all byte values.
SamplerInit ==
  /\ WorkerInit
  /\ validation = NoValidation
  /\ AppConstructed
  /\ sample \in { [min |-> a, max |-> b, randomUint8 |-> 0, state |-> "calling",
                   value |-> 0] : a \in 0..SamplerMaxMin, b \in 0..(ByteRange - 1) }
  /\ sample.min <= sample.max

\* Lines 107-109: getRandomByte returns b; the byte is rejected or the value
\* is returned.
SamplerDraw(b) ==
  /\ sample.state = "calling"
  /\ sample' = [sample EXCEPT
       !.randomUint8 = b,
       !.state = IF Accepted(b, sample.min, sample.max) THEN "returned" ELSE "rejected",
       !.value = IF Accepted(b, sample.min, sample.max)
                 THEN RangeValue(b, sample.min, sample.max) ELSE 0]
  /\ UNCHANGED <<poolVars, schedVars, callVars, envVars, ghostVars, validation,
                 appState>>

\* Lines 106-108: after a rejected byte the loop calls getRandomByte again
\* (the rejected byte is not read any more).
SamplerDrawAgain ==
  /\ sample.state = "rejected"
  /\ sample' = [sample EXCEPT !.state = "calling", !.randomUint8 = 0]
  /\ UNCHANGED <<poolVars, schedVars, callVars, envVars, ghostVars, validation,
                 appState>>

SamplerNext ==
  \/ \E b \in 0..(ByteRange - 1) : SamplerDraw(b)
  \/ SamplerDrawAgain

SamplerSpec == SamplerInit /\ [][SamplerNext]_vars

\* ----------------------------------------------------- passwordIsValid alone
\* One character of each class: 5, A, a, ! and the space.  The passwords
\* validated are runs of them in this order (passwordIsValid only counts).
ValidatorChars == <<53, 65, 97, 33, 32>>

\* The thresholds the validated options carry, in hundredths:
\* minDigitProportion, minSymbolProportion, maxCaseVariance.
ValidatorThresholds == {<<40, 20, 10>>, <<60, 50, 50>>}

ValidatorOptions ==
  { [passwordLength |-> MaxValidatedLength, useUppercase |-> uu, useLowercase |-> ul,
     useDigits |-> ud, useSymbols |-> us, symbols |-> sy,
     minDigitProportion |-> t[1], minSymbolProportion |-> t[2],
     maxCaseVariance |-> t[3]] :
      uu \in BOOLEAN, ul \in BOOLEAN, ud \in BOOLEAN, us \in BOOLEAN,
      sy \in {<<33, 64>>}, t \in ValidatorThresholds }
  \cup
  { [passwordLength |-> MaxValidatedLength, useUppercase |-> FALSE,
     useLowercase |-> FALSE, useDigits |-> ud, useSymbols |-> TRUE, symbols |-> <<>>,
     minDigitProportion |-> t[1], minSymbolProportion |-> t[2],
     maxCaseVariance |-> t[3]] :
      ud \in BOOLEAN, t \in ValidatorThresholds }

ValidatorInit ==
  /\ WorkerInit
  /\ sample = NoSample
  /\ AppConstructed
  /\ validation \in { [password |-> <<>>, options |-> o,
                       valid |-> passwordIsValid(<<>>, o)] : o \in ValidatorOptions }

\* The password grows by the k-th character, and passwordIsValid is called.
ValidatorAppend(k) ==
  /\ Len(validation.password) < MaxValidatedLength
  /\ \A i \in 1..Len(validation.password) :
       \A j \in (k + 1)..Len(ValidatorChars) : validation.password[i] # ValidatorChars[j]
  /\ validation' = [validation EXCEPT
       !.password = Append(@, ValidatorChars[k]),
       !.valid = passwordIsValid(Append(validation.password, ValidatorChars[k]),
                                 validation.options)]
  /\ UNCHANGED <<poolVars, schedVars, callVars, envVars, ghostVars, sample, appState>>

ValidatorNext == \E k \in 1..Len(ValidatorChars) : ValidatorAppend(k)

ValidatorSpec == ValidatorInit /\ [][ValidatorNext]_vars

\* ------------------------------------------------- App.onOptionsChange alone
\* util/removeDuplicateCharacters: the first occurrence of each character, in
\* order.
RECURSIVE removeDuplicateCharacters(_)
removeDuplicateCharacters(str) ==
  IF str = <<>> THEN <<>>
  ELSE LET front == removeDuplicateCharacters(SubSeq(str, 1, Len(str) - 1))
           last == str[Len(str)]
       IN  IF \E j \in 1..Len(front) : front[j] = last
           THEN front
           ELSE Append(front, last)

\* The symbol strings a change carries: none, !, !!, !@, @!@, !a, the space.
SymbolInputs ==
  {<<>>, <<33>>, <<33, 33>>, <<33, 64>>, <<64, 33, 64>>, <<33, 97>>, <<32>>}

\* The partial options onOptionsChange is called with: one flag, the symbols,
\* the password length, or the four flags with the symbols.
OptionsDeltas ==
  { [has |-> {f}, val |-> [InitialOptions EXCEPT ![f] = b]] :
      f \in {"useUppercase", "useLowercase", "useDigits", "useSymbols"},
      b \in BOOLEAN }
  \cup { [has |-> {"symbols"}, val |-> [InitialOptions EXCEPT !.symbols = sy]] :
           sy \in SymbolInputs }
  \cup { [has |-> {"passwordLength"}, val |-> [InitialOptions EXCEPT !.passwordLength = n]] :
           n \in {9, 12} }
  \cup { [has |-> {"useUppercase", "useLowercase", "useDigits", "useSymbols", "symbols"},
          val |-> [InitialOptions EXCEPT !.useUppercase = FALSE, !.useLowercase = FALSE,
                     !.useDigits = FALSE, !.useSymbols = b, !.symbols = sy]] :
           b \in BOOLEAN, sy \in SymbolInputs }

\* Lines 56-61: the current options overridden by the delta, the duplicate
\* symbols removed.
NewOptions(currentOptions, optionsDelta) ==
  LET merged == [f \in DOMAIN currentOptions |->
                   IF f \in optionsDelta.has THEN optionsDelta.val[f]
                   ELSE currentOptions[f]]
  IN  [merged EXCEPT !.symbols = removeDuplicateCharacters(@)]

\* Lines 65-73.
hasValidSymbols(newOptions) ==
  \A i \in 1..Len(newOptions.symbols) :
    classifyCharacter(newOptions.symbols[i]) = "symbol"

\* The condition with one symbol enough for an alphabet.
OptionsAcceptedWithOneSymbol(newOptions) ==
  /\ \/ newOptions.useUppercase
     \/ newOptions.useLowercase
     \/ newOptions.useDigits
     \/ newOptions.useSymbols /\ Len(newOptions.symbols) > 0
  /\ hasValidSymbols(newOptions)
  /\ Len(newOptions.symbols) > 0

\* The condition of lines 74-81.
OptionsAccepted(newOptions) ==
  /\ \/ newOptions.useUppercase
     \/ newOptions.useLowercase
     \/ newOptions.useDigits
     \/ newOptions.useSymbols /\ Len(newOptions.symbols) > 1
  /\ hasValidSymbols(newOptions)
  /\ Len(newOptions.symbols) > 0

\* onOptionsChange, lines 52-90.
onOptionsChange(optionsDelta) ==
  /\ appState' =
       [options |-> IF OptionsAccepted(NewOptions(appState.options, optionsDelta))
                    THEN NewOptions(appState.options, optionsDelta)
                    ELSE appState.options,
        optionsDelta |-> optionsDelta,
        prevOptions |-> appState.options]
  /\ UNCHANGED <<poolVars, schedVars, callVars, envVars, ghostVars, sample, validation>>

AppNext == \E optionsDelta \in OptionsDeltas : onOptionsChange(optionsDelta)

AppSpec == Init /\ [][AppNext]_vars

\* ------------------------------------------------------------------ claims
InSeq(p, q) == \E i \in 1..Len(q) : q[i] = p

\* C1: at most one refill request is outstanding at any time; a caller that
\* finds the pool exhausted while a refill is in flight awaits the pending
\* promise of that refill instead of posting a second request.
C1_AtMostOneRefillInFlight ==
  /\ Len(toMain) <= 1
  /\ (regenerationPromise # 0) <=> (Len(toMain) = 1)
  /\ \A p \in Callers :
       InSeq(p, reactions) => regenerationPromise # 0 /\ awaiting[p] = regenerationPromise

\* Two callers are suspended on the refill of the one request in flight.
C1_Witness ==
  /\ Len(toMain) = 1
  /\ \E p, q \in Callers : p # q /\ InSeq(p, reactions) /\ InSeq(q, reactions)

\* While callers wait for a refill, exactly one request is outstanding.
OneRequestWhileWaiting == reactions # <<>> => Len(toMain) = 1

\* The byte a getRandomByte call returned after waiting comes from the buffer
\* delivered by the refill the call waited for first.
FromAwaitedRefill(p) == attachedTo[p] \in readFrom[p].from.promises

C3_ReturnedPasswordIsValid ==
  \A p \in Callers :
    result[p].kind = "password" => passwordIsValid(result[p].password, options[p])

\* A password of two characters is returned under options some candidates fail.
C3_Witness ==
  \E p \in Callers :
    /\ result[p].kind = "password" /\ Len(result[p].password) = 2
    /\ options[p].useDigits /\ options[p].minDigitProportion = 50

\* The character c belongs to a class the options enable.
InEnabledClass(c, o) ==
  \/ o.useUppercase /\ c \in 65..90
  \/ o.useLowercase /\ c \in 97..122
  \/ o.useDigits /\ c \in 48..57
  \/ o.useSymbols /\ InSeq(c, o.symbols)

\* C4: a password generatePassword returns has exactly options.passwordLength
\* characters, each a character of an enabled class.
C4_LengthAndAlphabet ==
  \A p \in Callers :
    result[p].kind = "password" =>
      /\ Len(result[p].password) = options[p].passwordLength
      /\ \A i \in 1..Len(result[p].password) :
           InEnabledClass(result[p].password[i], options[p])

\* A password of two symbols is returned with only the symbols enabled.
C4_Witness ==
  \E p \in Callers :
    /\ result[p].kind = "password" /\ Len(result[p].password) = 2
    /\ options[p].useSymbols /\ ~options[p].useLowercase

ErrorResponseStep ==
  Len(toMain') < Len(toMain) /\ delivered'.responseCode = "ERROR"

\* C6: when the entropy source answers a refill with failure, every caller
\* that awaited the refill is resumed with the failure: its continuation is
\* queued, and it throws instead of taking a byte.
C6_FailureReachesEveryWaiter ==
  [][ /\ ErrorResponseStep =>
           \A p \in Callers :
             InSeq(p, reactions) => settled'[p] = "rejected" /\ InSeq(p, runq')
      /\ \A p \in Callers :
           settled[p] = "rejected" /\ pc'[p] # pc[p] =>
             /\ pc'[p] = "L226" /\ result'[p].kind = "throw"
             /\ ret'[p] = ret[p] /\ numRead' = numRead ]_vars

\* Two callers awaited a refill that failed, and both are resumed with it.
C6_Witness ==
  \E p, q \in Callers :
    p # q /\ settled[p] = "rejected" /\ settled[q] = "rejected"
    /\ InSeq(p, runq) /\ InSeq(q, runq)

\* C7: after a failed refill the pool retries: the promise is cleared, every
\* refill request asks for a full pool of bytes, and the bytes served come
\* from a refill that succeeded.
C7_RetryAfterFailedRefill ==
  /\ (delivered.responseCode = "ERROR" /\ toMain = <<>>) => regenerationPromise = 0
  /\ \A i \in 1..Len(toMain) : Len(toMain[i]) = PoolCapacity
  /\ \A p \in Callers : pc[p] = "L107" => readFrom[p].from.responseCode = "OK"

\* The response the listener owes for the way generatePassword ended.
Owed(r, m) ==
  /\ r.kind \in {"password", "null", "throw"}
  /\ (m.responseCode = "OK") <=> (r.kind = "password")
  /\ (m.responseCode = "TIMEOUT") <=> (r.kind = "null")
  /\ (m.responseCode = "ERROR") <=> (r.kind = "throw")
  /\ r.kind = "password" => m.password = r.password

\* C8: a request whose generatePassword call has ended is answered by exactly
\* one RESPONSE_GENERATE_PASSWORD: OK with the password iff a password was
\* returned, TIMEOUT iff null was returned, ERROR iff the call threw; the call
\* throws only on a failed refill and returns null only on the timeout.
C8_OneResponsePerOutcome ==
  [][ \A p \in Callers :
        /\ responses'[p] <= 1
        /\ (pc'[p] = "done") <=> (responses'[p] = 1)
        /\ responses'[p] # responses[p] =>
             pc[p] = "L226" /\ Owed(result[p], posted')
        /\ result'[p] # result[p] /\ result'[p].kind = "throw" =>
             settled[p] = "rejected"
        /\ result'[p] # result[p] /\ result'[p].kind = "null" =>
             pc[p] = "L206" /\ now - startTime[p] >= timeout[p] * MsPerSecond
        /\ result'[p] # result[p] /\ result'[p].kind = "password" =>
             pc[p] = "L206" /\ now - startTime[p] < timeout[p] * MsPerSecond ]_vars

\* Both requests are answered, the last one with TIMEOUT.
C8_Witness ==
  /\ \A p \in Callers : pc[p] = "done" /\ responses[p] = 1
  /\ posted.responseCode = "TIMEOUT"

\* C9: when a candidate is complete and the time elapsed since the start of
\* generatePassword is at least timeout * 1000 ms, generatePassword returns
\* null and draws no further candidate; so with timeout 0 it returns null
\* after its first candidate.
C9_TimeoutReturnsNull ==
  [][ \A p \in Callers :
        pc[p] = "L206" /\ pc'[p] # "L206"
        /\ now - startTime[p] >= timeout[p] * MsPerSecond
          => /\ pc'[p] = "L226" /\ result'[p].kind = "null"
             /\ numRead' = numRead /\ toMain' = toMain ]_vars

\* A call with a timeout of one second returns null exactly one second after
\* its start.
C9_Witness ==
  \E p \in Callers :
    /\ pc[p] = "L226" /\ result[p].kind = "null"
    /\ timeout[p] = 1 /\ now - startTime[p] = MsPerSecond

\* The number of characters of password that classifyCharacter puts in class.
Classified(password, class) ==
  Cardinality({i \in DOMAIN password : classifyCharacter(password[i]) = class})

\* The symbol check passes or is exempt.
SymbolCheckPasses(password, o) ==
  \/ ~o.useSymbols
  \/ o.symbols = <<>>
  \/ Classified(password, "symbol") * 100 >= o.minSymbolProportion * Len(password)

\* The case check passes or is exempt.
CaseCheckPasses(password, o) ==
  LET lower == Classified(password, "lowercase")
      upper == Classified(password, "uppercase")
  IN  \/ ~o.useUppercase \/ ~o.useLowercase
      \/ lower + upper = 0
      \/ /\ 100 * (lower - upper) <= o.maxCaseVariance * (lower + upper)
         /\ 100 * (upper - lower) <= o.maxCaseVariance * (lower + upper)

\* C10: for a password of at least one character, with useDigits enabled and
\* the symbol and case checks passing or exempt, passwordIsValid is true iff
\* digitCount / length >= minDigitProportion.
C10_DigitProportion ==
  LET pw == validation.password
      o == validation.options
  IN  Len(pw) >= 1 /\ o.useDigits /\ SymbolCheckPasses(pw, o) /\ CaseCheckPasses(pw, o)
        => (validation.valid
              <=> Classified(pw, "digit") * 100 >= o.minDigitProportion * Len(pw))

\* A password of 10 characters with 5 digits is invalid for a
\* minDigitProportion of 0.6, by the digit check alone.
C10_Witness ==
  /\ Len(validation.password) = 10
  /\ Classified(validation.password, "digit") = 5
  /\ validation.options.useDigits /\ validation.options.minDigitProportion = 60
  /\ SymbolCheckPasses(validation.password, validation.options)
  /\ CaseCheckPasses(validation.password, validation.options)
  /\ ~validation.valid

\* The digit check passes or is exempt.
DigitCheckPasses(password, o) ==
  \/ ~o.useDigits
  \/ Classified(password, "digit") * 100 >= o.minDigitProportion * Len(password)

\* |x| for an integer x.
Abs(x) == IF x < 0 THEN -x ELSE x

\* C11: with useUppercase and useLowercase enabled, at least one letter in the
\* password and the digit and symbol checks passing or exempt, passwordIsValid
\* is true iff 2 * |lowercase / letters - 0.5| <= maxCaseVariance, that is iff
\* |lowercase - uppercase| / letters <= maxCaseVariance; 4 upper + 4 lower
\* passes a maxCaseVariance of 0.1 and 6 upper + 2 lower fails it.
C11_CaseVariance ==
  LET pw == validation.password
      o == validation.options
      lower == Classified(pw, "lowercase")
      upper == Classified(pw, "uppercase")
  IN  /\ o.useUppercase /\ o.useLowercase /\ lower + upper > 0
         /\ DigitCheckPasses(pw, o) /\ SymbolCheckPasses(pw, o)
           => (validation.valid
                 <=> 100 * Abs(lower - upper) <= o.maxCaseVariance * (lower + upper))
      /\ o.useUppercase /\ o.useLowercase /\ ~o.useDigits /\ ~o.useSymbols
         /\ o.maxCaseVariance = 10 /\ Len(pw) = 8
           => /\ (upper = 4 /\ lower = 4 => validation.valid)
              /\ (upper = 6 /\ lower = 2 => ~validation.valid)

\* AAAAAAaa is invalid for a maxCaseVariance of 0.1, by the case check alone.
C11_Witness ==
  /\ validation.password = <<65, 65, 65, 65, 65, 65, 97, 97>>
  /\ validation.options.useUppercase /\ validation.options.useLowercase
  /\ ~validation.options.useDigits /\ ~validation.options.useSymbols
  /\ validation.options.maxCaseVariance = 10
  /\ ~validation.valid

\* The thresholds an exempt check is tried with, in hundredths.
ExemptThresholds == {0, 1, 50, 100}

\* C12: a disabled class is exempt from its check: the result of
\* passwordIsValid is the same for every minDigitProportion when useDigits is
\* false, for every minSymbolProportion when useSymbols is false or
\* options.symbols is empty, and for every maxCaseVariance when useUppercase or
\* useLowercase is false; with all three checks exempt every password is valid.
C12_DisabledClassExempt ==
  LET pw == validation.password
      o == validation.options
  IN  /\ ~o.useDigits =>
           \A x \in ExemptThresholds :
             passwordIsValid(pw, [o EXCEPT !.minDigitProportion = x]) = validation.valid
      /\ (~o.useSymbols \/ o.symbols = <<>>) =>
           \A x \in ExemptThresholds :
             passwordIsValid(pw, [o EXCEPT !.minSymbolProportion = x]) = validation.valid
      /\ (~o.useUppercase \/ ~o.useLowercase) =>
           \A x \in ExemptThresholds :
             passwordIsValid(pw, [o EXCEPT !.maxCaseVariance = x]) = validation.valid
      /\ (~o.useDigits /\ (~o.useSymbols \/ o.symbols = <<>>)
          /\ (~o.useUppercase \/ ~o.useLowercase)) => validation.valid

\* A password of uppercase letters is valid under options that ask for 60% of
\* digits but enable no check (digits and letters disabled, no symbols given).
C12_Witness ==
  /\ Len(validation.password) = MaxValidatedLength
  /\ Classified(validation.password, "digit") = 0
  /\ Classified(validation.password, "uppercase") = MaxValidatedLength
  /\ ~validation.options.useDigits /\ validation.options.minDigitProportion = 60
  /\ validation.options.useSymbols /\ validation.options.symbols = <<>>
  /\ ~validation.options.useUppercase /\ ~validation.options.useLowercase
  /\ validation.valid

\* Caller p is about to run the continuation of line 78 of a resolved refill.
ResumingResolved(p) ==
  pc[p] = "L78" /\ settled[p] = "resolved" /\ runq # <<>> /\ Head(runq) = p

\* C13: randomPool.numRead never exceeds the capacity of the pool, and every
\* read of randomPool.buffer is at an index below its length: a caller resumed
\* after a refill that finds the pool exhausted again reads nothing and awaits
\* a refill once more.
C13_CursorWithinBuffer ==
  [][ /\ numRead <= PoolCapacity /\ numRead' <= PoolCapacity
      /\ Len(buffer') <= PoolCapacity
      /\ numRead' = numRead + 1 => numRead < Len(buffer)
      /\ \A p \in Callers :
           /\ ret'[p] # Undefined
           /\ ResumingResolved(p) /\ pc'[p] # pc[p] => numRead < Len(buffer)
           /\ ResumingResolved(p) /\ ~(numRead < Len(buffer)) /\ settled'[p] = "none" =>
                /\ pc'[p] = "L78" /\ ret'[p] = ret[p] /\ numRead' = numRead
                /\ awaiting'[p] = regenerationPromise' /\ regenerationPromise' # 0 ]_vars

\* Two callers were woken by one refill, the first has taken its last byte,
\* and the second is about to be resumed on the exhausted pool.
C13_Witness ==
  \E p \in Callers :
    /\ ResumingResolved(p)
    /\ Len(buffer) = PoolCapacity /\ numRead = Len(buffer)
    /\ wokenWith[p].callers > wokenWith[p].bytes

\* No byte is returned before a RESPONSE_GET_RANDOM_BYTES message has been
\* handled.
NoByteBeforeFirstResponse ==
  \A p \in Callers : pc[p] = "L107" => readFrom[p].from # NotDelivered

\* C14 as stated: the pool starts exhausted, no byte is returned before the
\* first refill response has been handled, and no byte of the initial buffer,
\* which the entropy source never filled, is ever returned.
C14_InitialBufferNeverServed ==
  /\ (\A p \in Callers : pc[p] = "idle") => numRead >= Len(buffer)
  /\ NoByteBeforeFirstResponse
  /\ \A p \in Callers : pc[p] = "L107" => readFrom[p].from.filled

\* The generatePassword call of p has received the failure of a refill: its
\* await of line 78 is about to throw, or has thrown.
ReceivedFailure(p) ==
  \/ pc[p] = "L78" /\ settled[p] = "rejected"
  \/ pc[p] = "L226" /\ result[p].kind = "throw"

\* C15: a generatePassword call that has received the failure of a refill
\* reads no further byte, posts no further REQUEST_GET_RANDOM_BYTES and returns
\* neither a password nor null: its next step throws to the catch of line 244,
\* the step after posts the ERROR response, and the call does nothing more.
C15_FailureAbortsGeneration ==
  [][ \A p \in Callers :
        /\ ReceivedFailure(p) /\ pc'[p] # pc[p] =>
             /\ numRead' = numRead /\ ret'[p] = ret[p]
             /\ toMain' = toMain /\ regenerationPromise' = regenerationPromise
             /\ result'[p].kind \notin {"password", "null"}
             /\ \/ pc[p] = "L78" /\ pc'[p] = "L226" /\ result'[p].kind = "throw"
                \/ pc[p] = "L226" /\ pc'[p] = "done" /\ posted'.responseCode = "ERROR"
        /\ ReceivedFailure(p) /\ pc'[p] = pc[p] => ReceivedFailure(p)'
        /\ pc[p] = "done" => pc'[p] = "done" ]_vars

\* After another request was answered, a call for a password of two
\* characters has thrown to the catch of line 244; its response is not posted yet.
C15_Witness ==
  \E p \in Callers :
    /\ pc[p] = "L226" /\ result[p].kind = "throw"
    /\ options[p].passwordLength = 2 /\ responses[p] = 0
    /\ \E q \in Callers : q # p /\ pc[q] = "done"

\* Caller p takes a step while its candidate is partially built.
StepsMidCandidate(p) ==
  /\ pc[p] \in {"L78", "L107", "L168"}
  /\ runq # <<>> /\ Head(runq) = p
  /\ ~(pc[p] = "L78" /\ settled[p] = "rejected")

\* C16: generatePassword returns null only from the timeout check that follows
\* a completed candidate of passwordLength characters: while a candidate is
\* partially built the call goes on sampling however much time has passed.
C16_TimeoutBetweenCandidates ==
  [][ \A p \in Callers :
        /\ result'[p].kind = "null" /\ result[p].kind # "null" =>
             /\ pc[p] = "L206"
             /\ Len(randomString[p]) = options[p].passwordLength
             /\ randomString'[p] = randomString[p]
        /\ StepsMidCandidate(p) =>
             /\ result'[p] = result[p]
             /\ pc'[p] = "L206" => Len(randomString'[p]) = options[p].passwordLength
             /\ pc'[p] \in {"L78", "L107", "L168", "L206"} ]_vars

\* A call with timeout 0 has returned null, after a candidate of two characters.
C16_Witness ==
  \E p \in Callers :
    /\ pc[p] = "L226" /\ result[p].kind = "null" /\ timeout[p] = 0
    /\ Len(randomString[p]) = 2 /\ options[p].passwordLength = 2

\* The validator the claim C17 describes: a check whose denominator is zero
\* is skipped.
ValidSkippingZeroDenominators(password, o) ==
  /\ (o.useDigits /\ Len(password) # 0 =>
        Classified(password, "digit") * 100 >= o.minDigitProportion * Len(password))
  /\ (o.useSymbols /\ o.symbols # <<>> /\ Len(password) # 0 =>
        Classified(password, "symbol") * 100 >= o.minSymbolProportion * Len(password))
  /\ (o.useUppercase /\ o.useLowercase
      /\ Classified(password, "lowercase") + Classified(password, "uppercase") # 0 =>
        100 * Abs(Classified(password, "lowercase") - Classified(password, "uppercase"))
          <= o.maxCaseVariance
               * (Classified(password, "lowercase") + Classified(password, "uppercase")))

\* C17 as stated: passwordIsValid skips every check whose denominator is zero,
\* the case check of a password without letters and the digit and symbol
\* checks of a password of length zero.
C17_ZeroDenominatorSkipped ==
  validation.valid
    = ValidSkippingZeroDenominators(validation.password, validation.options)

\* What holds: the case check is skipped without letters, and the checks of a
\* password of at least one character divide by its length.
C17_HoldsForNonEmpty ==
  Len(validation.password) # 0 => C17_ZeroDenominatorSkipped

\* The options are usable by the worker: the symbols are not empty, none
\* occurs twice, each is classified as symbol, and the working alphabet has at
\* least two characters.
Usable(o) ==
  /\ o.symbols # <<>>
  /\ \A i, j \in 1..Len(o.symbols) : i # j => o.symbols[i] # o.symbols[j]
  /\ \A i \in 1..Len(o.symbols) : classifyCharacter(o.symbols[i]) = "symbol"
  /\ Len(PasswordChars(o)) >= 2
  /\ (o.useUppercase \/ o.useLowercase \/ o.useDigits
      \/ (o.useSymbols /\ Len(o.symbols) > 1))

\* The options the last call of onOptionsChange asked for: those it found,
\* overridden by its optionsDelta, each symbol kept once.
Requested ==
  LET d == appState.optionsDelta
      o == appState.prevOptions
      sy == IF "symbols" \in d.has THEN d.val.symbols ELSE o.symbols
  IN  [passwordLength |-> IF "passwordLength" \in d.has THEN d.val.passwordLength
                          ELSE o.passwordLength,
       minDigitProportion |-> o.minDigitProportion,
       minSymbolProportion |-> o.minSymbolProportion,
       maxCaseVariance |-> o.maxCaseVariance,
       useLowercase |-> IF "useLowercase" \in d.has THEN d.val.useLowercase
                        ELSE o.useLowercase,
       useUppercase |-> IF "useUppercase" \in d.has THEN d.val.useUppercase
                        ELSE o.useUppercase,
       useDigits |-> IF "useDigits" \in d.has THEN d.val.useDigits ELSE o.useDigits,
       useSymbols |-> IF "useSymbols" \in d.has THEN d.val.useSymbols ELSE o.useSymbols,
       symbols |-> SelectSeq([i \in 1..Len(sy) |-> <<i, sy[i]>>],
                             LAMBDA e : \A j \in 1..(e[1] - 1) : sy[j] # e[2])]

\* C18: after any sequence of onOptionsChange calls from the initial options
\* the stored options are usable; a change whose options would not be usable
\* leaves the stored options as they were, and any other change is stored.
C18_StoredOptionsUsable ==
  LET asked == [Requested EXCEPT
                  !.symbols = [i \in 1..Len(@) |-> @[i][2]]]
  IN  /\ Usable(appState.options)
      /\ Usable(appState.prevOptions)
      /\ ~Usable(asked) => appState.options = appState.prevOptions
      /\ Usable(asked) => appState.options = asked

\* With the symbols alone enabled, a change to the single symbol ! was rejected.
C18_Witness ==
  /\ appState.optionsDelta.has = {"symbols"}
  /\ appState.optionsDelta.val.symbols = <<33>>
  /\ appState.prevOptions.useSymbols
  /\ ~appState.prevOptions.useUppercase /\ ~appState.prevOptions.useLowercase
  /\ ~appState.prevOptions.useDigits
  /\ appState.options = appState.prevOptions

\* Caller p holds a byte its getRandomByte call has just returned.
HoldsByte(p) == pc[p] = "L107"

C20_NoStarvation ==
  \A p \in Callers : (pc[p] = "L78") ~> (pc[p] = "L107")

\* A caller that found the pool exhausted again when it was resumed holds a
\* byte of a later refill than the one it waited for first.
C20_Witness ==
  \E p \in Callers :
    /\ pc[p] = "L107" /\ attachedTo[p] # 0
    /\ wokenWith[p].callers > wokenWith[p].bytes
    /\ ~FromAwaitedRefill(p)

====
